---- MODULE Spec2Model ----
(***************************************************************************)
(* Portfolio trading simulator (trading-simulation.py) driven by a price   *)
(* history (history.py).  Decimal amounts are integers here: every price   *)
(* of the replayed and stationary histories is an integral Decimal and     *)
(* every product and sum stays far below the 28 digits of the default      *)
(* Decimal context, so the arithmetic of the code is exact.  Dates are     *)
(* proleptic Gregorian ordinals (date.toordinal()).                        *)
(***************************************************************************)
EXTENDS Integers, Sequences, FiniteSets, TLC

VARIABLES history, cash, assets, days, current_date, current_prices,
          initial_value, pc, last, ntrades,
          run, reported,
          tape, rng, iters

\* the simulator object, the last call made on it and the count of trades
simVars == <<history, cash, assets, days, current_date, current_prices,
             initial_value, pc, last, ntrades>>

\* the position in PortfolioSimulator.run and the count of print_result
runVars == <<run, reported>>

\* the randomized histories: the seeded stream, the draws each Random
\* object has made, and the generators opened on the histories
srcVars == <<tape, rng, iters>>

vars == <<simVars, runVars, srcVars>>

(* ---------------------------- bounds ----------------------------------- *)
\* number of buy/sell calls explored in one run
MaxTrades == 2
\* last day index pulled from an infinite history
MaxDay == 2
\* last day index pulled from a generator of a randomized history
MaxChaosDay == 2

\* quantities typed at the prompt (input_int accepts any integer)
Amounts == {-1, 0, 1, 2}
\* starting capital given to the constructor
InitialCash == {-1, 0, 510, 100000}
\* identifiers typed at the prompt
Names == {"LKOH", "SBER", "GAZP", "__doc__"}

(* ---------------------------- history.py ------------------------------- *)
\* dataclass fields of AssetPrice, in definition order
Fields == <<"LKOH", "SBER">>

FieldSet == {Fields[i] : i \in 1..Len(Fields)}

\* attributes of an AssetPrice object that are not dataclass fields
OtherAttrs == {"__doc__"}

AssetPrice(lkoh, sber) == [LKOH |-> lkoh, SBER |-> sber]

DefaultAssetPrice == AssetPrice(5896, 250)

\* date.today() of the run
Today == 739922

\* date(2023, 9, 10).toordinal()
RealStart == 738773

RealHistory ==
  << <<RealStart,     AssetPrice(6669, 255)>>,
     <<RealStart + 1, AssetPrice(6456, 256)>>,
     <<RealStart + 2, AssetPrice(6729, 262)>>,
     <<RealStart + 3, AssetPrice(6610, 258)>>,
     <<RealStart + 4, AssetPrice(6519, 260)>>,
     <<RealStart + 5, AssetPrice(6553, 260)>>,
     <<RealStart + 6, AssetPrice(6527, 260)>>,
     <<RealStart + 7, AssetPrice(6566, 263)>> >>

HistoryKinds == {"real", "chill"}

\* iter(history): a fresh generator, nothing yielded yet
iter_history == [n |-> 0, done |-> FALSE]

\* real_next restarting the table once it ran out
real_next_wrap(d) ==
  IF d.n < Len(RealHistory)
    THEN [stop |-> FALSE, days |-> [n |-> d.n + 1, done |-> FALSE],
          date |-> RealHistory[d.n + 1][1], prices |-> RealHistory[d.n + 1][2]]
    ELSE [stop |-> FALSE, days |-> [n |-> 1, done |-> FALSE],
          date |-> RealHistory[1][1], prices |-> RealHistory[1][2]]

\* next() on the generator of RealAssetPriceHistory.__iter__
real_next(d) ==
  IF ~d.done /\ d.n < Len(RealHistory)
    THEN [stop |-> FALSE, days |-> [n |-> d.n + 1, done |-> FALSE],
          date |-> RealHistory[d.n + 1][1], prices |-> RealHistory[d.n + 1][2]]
    ELSE [stop |-> TRUE, days |-> [n |-> d.n, done |-> TRUE],
          date |-> 0, prices |-> DefaultAssetPrice]

\* chill_next stepping the date by the day index twice
chill_next_skip(d) ==
  [stop |-> FALSE, days |-> [n |-> d.n + 1, done |-> FALSE],
   date |-> Today + 2 * d.n, prices |-> DefaultAssetPrice]

\* next() on the generator of ChillAssetPriceHistory.__iter__
chill_next(d) ==
  [stop |-> FALSE, days |-> [n |-> d.n + 1, done |-> FALSE],
   date |-> Today + d.n, prices |-> DefaultAssetPrice]

gen_next(h, d) == IF h = "real" THEN real_next(d) ELSE chill_next(d)

\* ChaosAssetPriceHistory objects, both built with seed 42 and the default
\* price_multiplier, and the generators opened on them
ChaosInstances == {"A", "B"}

IterIds == {"a1", "a2", "b1"}

Owner(i) == IF i = "b1" THEN "B" ELSE "A"

\* values of random.uniform(0.5, 1.5), in halves: 0.5 and 1.0
Mults == {1, 2}

\* draws one generator makes: one per field and day after day 0
DrawsPerRun == Len(Fields) * MaxChaosDay

\* draws of the two generators opened on one history
TapeLen == 2 * DrawsPerRun

\* every Random object shares one generator state (module-level seeding)
rng_global(inst) == "A"

\* self.random: the Random object an instance draws from
rng_of(inst) == inst

\* the k-th value of self.random.uniform(...) after seed(42)
uniform(t, k) == t[k]

\* a fresh generator of ChaosAssetPriceHistory.__iter__
chaos_iter == [day |-> 0, out |-> << >>, draws |-> << >>]

\* one field of the AssetPrice built on a day after day 0: the default
\* price times the multiplier, the field left out for a falsy multiplier
chaos_price(name, m) ==
  IF m = 0 THEN DefaultAssetPrice[name]
           ELSE (DefaultAssetPrice[name] * m) \div 2

\* next() on a generator of ChaosAssetPriceHistory.__iter__, the Random
\* object having made k draws
chaos_next(it, t, k) ==
  IF it.day = 0
    THEN [it |-> [day |-> 1,
                  out |-> Append(it.out, <<Today, DefaultAssetPrice>>),
                  draws |-> it.draws],
          k |-> k]
    ELSE LET m == [f \in FieldSet |->
                     uniform(t, k + (CHOOSE j \in 1..Len(Fields) :
                                       Fields[j] = f))]
             prices == [f \in FieldSet |-> chaos_price(f, m[f])]
         IN [it |-> [day |-> it.day + 1,
                     out |-> Append(it.out, <<Today + it.day, prices>>),
                     draws |-> Append(it.draws, m)],
             k |-> k + Len(Fields)]

(* ------------------------ trading-simulation.py ------------------------ *)
\* getattr(self.current_prices, asset)
getattr(prices, name) ==
  IF name \in FieldSet THEN [kind |-> "Decimal", val |-> prices[name]]
  ELSE IF name \in OtherAttrs THEN [kind |-> "str", val |-> 0]
  ELSE [kind |-> "AttributeError", val |-> 0]

\* the keys of the defaultdict: the assets that have a holding record
Records(a) == DOMAIN a

\* a read of defaultdict(int): the stored quantity, 0 for a missing key
Quantity(a, name) == IF name \in DOMAIN a THEN a[name] ELSE 0

\* the defaultdict after self.assets[name] was read for every field
Touched(a) ==
  [k \in (DOMAIN a) \cup FieldSet |-> Quantity(a, k)]

\* self.assets[name] = q
Store(a, name, q) ==
  [k \in (DOMAIN a) \cup {name} |-> IF k = name THEN q ELSE a[k]]

RECURSIVE SumTotals(_)
SumTotals(s) == IF s = <<>> THEN 0 ELSE Head(s)[3] + SumTotals(Tail(s))

\* asset_values without the filter on the quantity
asset_values_all(a, prices) ==
  [i \in 1..Len(Fields) |->
      <<Fields[i], Quantity(a, Fields[i]),
        prices[Fields[i]] * Quantity(a, Fields[i])>>]

\* PortfolioSimulator.asset_values
asset_values(a, prices) ==
  SelectSeq([i \in 1..Len(Fields) |->
                <<Fields[i], Quantity(a, Fields[i]),
                  prices[Fields[i]] * Quantity(a, Fields[i])>>],
            LAMBDA t : t[2] # 0)

\* value summing the quantities instead of the totals
value_quantities(c, a, prices) ==
  c + Quantity(a, "LKOH") + Quantity(a, "SBER")

\* PortfolioSimulator.value
value(c, a, prices) == c + SumTotals(asset_values(a, prices))

\* PortfolioSimulator.profit
profit(c, a, prices, initial) == value(c, a, prices) - initial

\* __post_init__ refusing a zero capital too
post_init_strict(h, c, a) ==
  IF c <= 0
    THEN [result |-> "NotEnoughCash", days |-> iter_history, date |-> 0,
          prices |-> DefaultAssetPrice, assets |-> a, initial |-> 0]
    ELSE LET r == gen_next(h, iter_history)
         IN [result |-> "ok", days |-> r.days, date |-> r.date,
             prices |-> r.prices, assets |-> Touched(a),
             initial |-> value(c, a, r.prices)]

\* __post_init__ taking the cash alone for the initial value
post_init_cash_only(h, c, a) ==
  IF c < 0
    THEN [result |-> "NotEnoughCash", days |-> iter_history, date |-> 0,
          prices |-> DefaultAssetPrice, assets |-> a, initial |-> 0]
    ELSE LET r == gen_next(h, iter_history)
         IN [result |-> "ok", days |-> r.days, date |-> r.date,
             prices |-> r.prices, assets |-> a, initial |-> c]

\* PortfolioSimulator.__post_init__
post_init(h, c, a) ==
  IF c < 0
    THEN [result |-> "NotEnoughCash", days |-> iter_history, date |-> 0,
          prices |-> DefaultAssetPrice, assets |-> a, initial |-> 0]
    ELSE LET r == gen_next(h, iter_history)
         IN [result |-> "ok", days |-> r.days, date |-> r.date,
             prices |-> r.prices, assets |-> Touched(a),
             initial |-> value(c, a, r.prices)]

\* buy charging the price of one unit whatever the amount
buy_unit_cost(c, a, prices, asset, amount) ==
  LET g == getattr(prices, asset)
  IN IF g.kind = "AttributeError"
       THEN [result |-> "WrongAssetName", cash |-> c, assets |-> a]
     ELSE IF g.kind # "Decimal"
       THEN [result |-> "TypeError", cash |-> c, assets |-> a]
     ELSE LET cost == g.val
          IN IF c < cost
               THEN [result |-> "NotEnoughCash", cash |-> c, assets |-> a]
               ELSE [result |-> "ok", cash |-> c - cost,
                     assets |-> Store(a, asset, Quantity(a, asset) + amount)]

\* buy without the check of the cash
buy_unchecked(c, a, prices, asset, amount) ==
  LET g == getattr(prices, asset)
  IN IF g.kind = "AttributeError"
       THEN [result |-> "WrongAssetName", cash |-> c, assets |-> a]
     ELSE IF g.kind # "Decimal"
       THEN [result |-> "TypeError", cash |-> c, assets |-> a]
     ELSE [result |-> "ok", cash |-> c - g.val * amount,
           assets |-> Store(a, asset, Quantity(a, asset) + amount)]

\* buy adding to the holding before the check of the cash
buy_store_first(c, a, prices, asset, amount) ==
  LET g == getattr(prices, asset)
  IN IF g.kind = "AttributeError"
       THEN [result |-> "WrongAssetName", cash |-> c, assets |-> a]
     ELSE IF g.kind # "Decimal"
       THEN [result |-> "TypeError", cash |-> c, assets |-> a]
     ELSE LET cost == g.val * amount
              stored == Store(a, asset, Quantity(a, asset) + amount)
          IN IF c < cost
               THEN [result |-> "NotEnoughCash", cash |-> c,
                     assets |-> stored]
               ELSE [result |-> "ok", cash |-> c - cost, assets |-> stored]

\* PortfolioSimulator.buy
buy(c, a, prices, asset, amount) ==
  LET g == getattr(prices, asset)
  IN IF g.kind = "AttributeError"
       THEN [result |-> "WrongAssetName", cash |-> c, assets |-> a]
     ELSE IF g.kind # "Decimal"
       THEN [result |-> "TypeError", cash |-> c, assets |-> a]
     ELSE LET cost == g.val * amount
          IN IF c < cost
               THEN [result |-> "NotEnoughCash", cash |-> c, assets |-> a]
               ELSE [result |-> "ok", cash |-> c - cost,
                     assets |-> Store(a, asset, Quantity(a, asset) + amount)]

\* sell taking one unit from the holding whatever the amount
sell_one(c, a, prices, asset, amount) ==
  IF asset \notin Records(a)
    THEN [result |-> "WrongAssetName", cash |-> c, assets |-> a]
  ELSE IF a[asset] < amount
    THEN [result |-> "NotEnoughAsset", cash |-> c, assets |-> a]
  ELSE LET g == getattr(prices, asset)
       IN IF g.kind = "AttributeError"
            THEN [result |-> "WrongAssetName", cash |-> c, assets |-> a]
          ELSE IF g.kind # "Decimal"
            THEN [result |-> "TypeError", cash |-> c, assets |-> a]
          ELSE [result |-> "ok", cash |-> c + g.val * amount,
                assets |-> Store(a, asset, a[asset] - 1)]

\* sell taking a zero holding for a missing record
sell_zero_unknown(c, a, prices, asset, amount) ==
  IF Quantity(a, asset) = 0
    THEN [result |-> "WrongAssetName", cash |-> c, assets |-> a]
  ELSE IF a[asset] < amount
    THEN [result |-> "NotEnoughAsset", cash |-> c, assets |-> a]
  ELSE LET g == getattr(prices, asset)
       IN IF g.kind = "AttributeError"
            THEN [result |-> "WrongAssetName", cash |-> c, assets |-> a]
          ELSE IF g.kind # "Decimal"
            THEN [result |-> "TypeError", cash |-> c, assets |-> a]
          ELSE [result |-> "ok", cash |-> c + g.val * amount,
                assets |-> Store(a, asset, a[asset] - amount)]

\* PortfolioSimulator.sell
sell(c, a, prices, asset, amount) ==
  IF asset \notin Records(a)
    THEN [result |-> "WrongAssetName", cash |-> c, assets |-> a]
  ELSE IF a[asset] < amount
    THEN [result |-> "NotEnoughAsset", cash |-> c, assets |-> a]
  ELSE LET g == getattr(prices, asset)
       IN IF g.kind = "AttributeError"
            THEN [result |-> "WrongAssetName", cash |-> c, assets |-> a]
          ELSE IF g.kind # "Decimal"
            THEN [result |-> "TypeError", cash |-> c, assets |-> a]
          ELSE [result |-> "ok", cash |-> c + g.val * amount,
                assets |-> Store(a, asset, a[asset] - amount)]

\* next_day taking the prices of the pulled pair but not its date
next_day_same_date(h, d, date, prices) ==
  LET r == gen_next(h, d)
  IN IF r.stop
       THEN [result |-> "StopIteration", days |-> r.days,
             date |-> date, prices |-> prices]
       ELSE [result |-> "ok", days |-> r.days,
             date |-> date, prices |-> r.prices]

\* PortfolioSimulator.next_day
next_day(h, d, date, prices) ==
  LET r == gen_next(h, d)
  IN IF r.stop
       THEN [result |-> "StopIteration", days |-> r.days,
             date |-> date, prices |-> prices]
       ELSE [result |-> "ok", days |-> r.days,
             date |-> r.date, prices |-> r.prices]

(* ---------------------------- state machine ---------------------------- *)
Call(op, asset, amount, result) ==
  [op |-> op, asset |-> asset, amount |-> amount, result |-> result]

\* the holdings handed to the constructor
InitialAssets ==
  {<<>>, [k \in {"SBER"} |-> 2], [k \in {"GAZP", "__doc__"} |-> 1]}

Init ==
  /\ history \in HistoryKinds
  /\ cash \in InitialCash
  /\ assets \in InitialAssets
  /\ days = iter_history
  /\ current_date = 0
  /\ current_prices = DefaultAssetPrice
  /\ initial_value = 0
  /\ pc = "new"
  /\ last = Call("none", "", 0, "none")
  /\ ntrades = 0
  /\ run = "idle"
  /\ reported = 0
  /\ tape = << >>
  /\ rng = [inst \in ChaosInstances |-> 0]
  /\ iters = [i \in IterIds |-> chaos_iter]

Construct ==
  /\ pc = "new"
  /\ LET r == post_init(history, cash, assets)
     IN /\ pc' = IF r.result = "ok" THEN "ready" ELSE "failed"
        /\ days' = r.days
        /\ current_date' = r.date
        /\ current_prices' = r.prices
        /\ assets' = r.assets
        /\ initial_value' = r.initial
        /\ last' = Call("construct", "", 0, r.result)
  /\ UNCHANGED <<history, cash, ntrades, runVars, srcVars>>

Buy ==
  /\ pc = "ready" /\ run = "idle"
  /\ ntrades < MaxTrades
  /\ \E asset \in Names, amount \in Amounts :
       LET r == buy(cash, assets, current_prices, asset, amount)
       IN /\ cash' = r.cash
          /\ assets' = r.assets
          /\ last' = Call("buy", asset, amount, r.result)
  /\ ntrades' = ntrades + 1
  /\ UNCHANGED <<history, days, current_date, current_prices,
                 initial_value, pc, runVars, srcVars>>

Sell ==
  /\ pc = "ready" /\ run = "idle"
  /\ ntrades < MaxTrades
  /\ \E asset \in Names, amount \in Amounts :
       LET r == sell(cash, assets, current_prices, asset, amount)
       IN /\ cash' = r.cash
          /\ assets' = r.assets
          /\ last' = Call("sell", asset, amount, r.result)
  /\ ntrades' = ntrades + 1
  /\ UNCHANGED <<history, days, current_date, current_prices,
                 initial_value, pc, runVars, srcVars>>

NextDay ==
  /\ pc = "ready" /\ run = "idle"
  /\ days.n <= MaxDay \/ history = "real"
  /\ LET r == next_day(history, days, current_date, current_prices)
     IN /\ days' = r.days
        /\ current_date' = r.date
        /\ current_prices' = r.prices
        /\ last' = Call("next_day", "", 0, r.result)
  /\ UNCHANGED <<history, cash, assets, initial_value, pc, ntrades,
                 runVars, srcVars>>

Next == Construct \/ Buy \/ Sell \/ NextDay

Spec == Init /\ [][Next]_vars

(* ------------------- the interactive session (run) --------------------- *)
\* the simulator built by the main block: no holdings are passed
InitRun == Init /\ Records(assets) = {}

\* the exceptions user_action catches around buy and around sell
CaughtBuy == {"WrongAssetName", "NotEnoughCash"}

CaughtSell == {"WrongAssetName", "NotEnoughAsset"}

\* run() is called on the constructed simulator: print_greeting
Run ==
  /\ pc = "ready" /\ run = "idle"
  /\ run' = "summary"
  /\ UNCHANGED <<simVars, reported, srcVars>>

\* print_summary: reads asset_values, value and profit
Summary ==
  /\ run = "summary"
  /\ assets' = Touched(assets)
  /\ run' = "action"
  /\ UNCHANGED <<history, cash, days, current_date, current_prices,
                 initial_value, pc, last, ntrades, reported, srcVars>>

\* user_action, case "1"
UserBuy ==
  /\ run = "action"
  /\ ntrades < MaxTrades
  /\ \E asset \in Names, amount \in Amounts :
       LET r == buy(cash, assets, current_prices, asset, amount)
       IN /\ cash' = r.cash
          /\ assets' = r.assets
          /\ last' = Call("buy", asset, amount, r.result)
          /\ run' = IF r.result \in CaughtBuy \cup {"ok"}
                      THEN "summary" ELSE "crashed"
  /\ ntrades' = ntrades + 1
  /\ UNCHANGED <<history, days, current_date, current_prices,
                 initial_value, pc, reported, srcVars>>

\* user_action, case "2"
UserSell ==
  /\ run = "action"
  /\ ntrades < MaxTrades
  /\ \E asset \in Names, amount \in Amounts :
       LET r == sell(cash, assets, current_prices, asset, amount)
       IN /\ cash' = r.cash
          /\ assets' = r.assets
          /\ last' = Call("sell", asset, amount, r.result)
          /\ run' = IF r.result \in CaughtSell \cup {"ok"}
                      THEN "summary" ELSE "crashed"
  /\ ntrades' = ntrades + 1
  /\ UNCHANGED <<history, days, current_date, current_prices,
                 initial_value, pc, reported, srcVars>>

\* user_action, case "3": StopIteration becomes StopGameException
UserNextDay ==
  /\ run = "action"
  /\ days.n <= MaxDay \/ history = "real"
  /\ LET r == next_day(history, days, current_date, current_prices)
     IN /\ days' = r.days
        /\ current_date' = r.date
        /\ current_prices' = r.prices
        /\ last' = Call("next_day", "", 0, r.result)
        /\ run' = IF r.result = "StopIteration" THEN "result" ELSE "summary"
  /\ UNCHANGED <<history, cash, assets, initial_value, pc, ntrades,
                 reported, srcVars>>

\* user_action, case "4"
UserQuit ==
  /\ run = "action"
  /\ last' = Call("quit", "", 0, "StopGameException")
  /\ run' = "result"
  /\ UNCHANGED <<history, cash, assets, days, current_date, current_prices,
                 initial_value, pc, ntrades, reported, srcVars>>

\* user_action, case _
UserOther ==
  /\ run = "action"
  /\ last' = Call("other", "", 0, "ok")
  /\ run' = "summary"
  /\ UNCHANGED <<history, cash, assets, days, current_date, current_prices,
                 initial_value, pc, ntrades, reported, srcVars>>

\* print_result after the loop
PrintResult ==
  /\ run = "result"
  /\ reported' = reported + 1
  /\ run' = "done"
  /\ UNCHANGED <<simVars, srcVars>>

NextRun ==
  \/ Construct \/ Run \/ Summary \/ UserBuy \/ UserSell \/ UserNextDay
  \/ UserQuit \/ UserOther \/ PrintResult

SpecRun == InitRun /\ [][NextRun]_vars

(* ----------------------- the randomized histories ----------------------- *)
InitChaos ==
  /\ history = "real"
  /\ cash = 0
  /\ assets = << >>
  /\ days = iter_history
  /\ current_date = 0
  /\ current_prices = DefaultAssetPrice
  /\ initial_value = 0
  /\ pc = "new"
  /\ last = Call("none", "", 0, "none")
  /\ ntrades = 0
  /\ run = "idle"
  /\ reported = 0
  /\ tape \in [1..TapeLen -> Mults]
  /\ rng = [inst \in ChaosInstances |-> 0]
  /\ iters = [i \in IterIds |-> chaos_iter]

\* next() on generator i
ChaosNext(i) ==
  /\ iters[i].day <= MaxChaosDay
  /\ LET g == rng_of(Owner(i))
         r == chaos_next(iters[i], tape, rng[g])
     IN /\ iters' = [iters EXCEPT ![i] = r.it]
        /\ rng' = [rng EXCEPT ![g] = r.k]
  /\ UNCHANGED <<simVars, runVars, tape>>

NextChaos == \E i \in IterIds : ChaosNext(i)

SpecChaos == InitChaos /\ [][NextChaos]_vars

(* ------------------------------ properties ----------------------------- *)
NonNegative(c, a) == c >= 0 /\ \A n \in Names : Quantity(a, n) >= 0

\* cash + sum over the priced assets of holdings * price, term by term
Worth(c, a, prices) ==
  c + Quantity(a, "LKOH") * prices.LKOH + Quantity(a, "SBER") * prices.SBER

\* the step is a call of buy / sell with the arguments recorded in last'
BuyCall == pc = "ready" /\ ntrades' = ntrades + 1 /\ last'.op = "buy"

SellCall == pc = "ready" /\ ntrades' = ntrades + 1 /\ last'.op = "sell"

OthersKept(a) ==
  \A b \in Names \ {a} : Quantity(assets', b) = Quantity(assets, b)

C3_NeverNegative ==
  [][ (\/ (/\ pc = "new" /\ last'.op = "construct" /\ last'.result = "ok"
           /\ Records(assets) = {})
       \/ (/\ pc = "ready" /\ NonNegative(cash, assets)
           /\ (last'.op \in {"buy", "sell"} => last'.amount > 0)))
      => NonNegative(cash', assets') ]_vars

\* a later day, after two trades, the last one a sell that went through
C3_Witness ==
  /\ pc = "ready" /\ days.n >= 2 /\ ntrades >= 2
  /\ last.op = "sell" /\ last.result = "ok" /\ last.amount > 0
  /\ NonNegative(cash, assets) /\ cash > 0

\* C4: a buy or a sell with a zero or negative quantity is rejected and
\* leaves cash and holdings unchanged.
C4_NonPositiveRejected ==
  [][ ((BuyCall \/ SellCall) /\ last'.amount <= 0)
      => (last'.result # "ok" /\ cash' = cash /\ assets' = assets) ]_vars

\* C5: a buy with price(a) * q > cash fails with NotEnoughCash and a sell
\* with holdings[a] < q fails with NotEnoughAsset; both leave cash, every
\* holding, the set of holding records, the date, the snapshot and the
\* initial value as they were.
C5_FailureAtomic ==
  [][ (\/ (/\ BuyCall /\ last'.asset \in FieldSet
           /\ current_prices[last'.asset] * last'.amount > cash)
       \/ (/\ SellCall /\ last'.asset \in Records(assets)
           /\ assets[last'.asset] < last'.amount))
      => (/\ last'.result = (IF last'.op = "buy" THEN "NotEnoughCash"
                                                 ELSE "NotEnoughAsset")
          /\ cash' = cash
          /\ assets' = assets
          /\ Records(assets') = Records(assets)
          /\ current_date' = current_date
          /\ current_prices' = current_prices
          /\ initial_value' = initial_value) ]_vars

\* a sell of more than the (non-zero) holding was refused
C5_Witness ==
  /\ last.op = "sell" /\ last.result = "NotEnoughAsset"
  /\ last.asset \in FieldSet
  /\ Quantity(assets, last.asset) > 0
  /\ Quantity(assets, last.asset) < last.amount

\* C6: a buy of an identifier that is not a field of the snapshot (another
\* attribute of the snapshot object included) fails with WrongAssetName,
\* with no other outcome, and changes no state.
C6_BuyUnknownAsset ==
  [][ (BuyCall /\ last'.asset \notin FieldSet)
      => (/\ last'.result = "WrongAssetName"
          /\ cash' = cash
          /\ assets' = assets
          /\ current_date' = current_date
          /\ current_prices' = current_prices
          /\ initial_value' = initial_value) ]_vars

\* C7: a sell of an identifier that is not a field of the snapshot fails
\* with WrongAssetName and leaves cash and holdings unchanged, whether or
\* not the identifier has a holding record.
C7_SellUnknownAsset ==
  [][ (SellCall /\ last'.asset \notin FieldSet)
      => (/\ last'.result = "WrongAssetName"
          /\ cash' = cash
          /\ assets' = assets) ]_vars

\* C8: on the replayed history construction takes the first of the 8
\* entries, exactly 7 calls of next_day then succeed and the next one
\* raises StopIteration, leaving date, snapshot, cash and holdings as they
\* were; from then on every next_day raises StopIteration again and the
\* day never changes.
C8_ReplayEnds ==
  /\ [][ history = "real" =>
           /\ (pc = "new" /\ last'.op = "construct" /\ last'.result = "ok")
                => (days'.n = 1 /\ current_date' = RealStart)
           /\ (pc = "ready" /\ last'.op = "next_day")
                => IF days.n - 1 < 7
                     THEN /\ last'.result = "ok"
                          /\ days'.n = days.n + 1
                          /\ current_date' = current_date + 1
                          /\ ~days'.done
                     ELSE /\ last'.result = "StopIteration"
                          /\ days'.done
                          /\ days'.n = days.n
                          /\ UNCHANGED <<current_date, current_prices,
                                         cash, assets>>
           /\ days.done
                => /\ days'.done
                   /\ UNCHANGED <<current_date, current_prices>> ]_vars
  /\ [](history = "real" /\ days.done =>
         LET r == next_day(history, days, current_date, current_prices)
         IN /\ r.result = "StopIteration"
            /\ r.days = days
            /\ r.date = current_date
            /\ r.prices = current_prices)

\* the replayed history ran out on its last day
C8_Witness ==
  /\ history = "real" /\ pc = "ready"
  /\ last.op = "next_day" /\ last.result = "StopIteration"
  /\ days.done /\ days.n = 8
  /\ current_date = RealStart + 7
  /\ current_prices = AssetPrice(6566, 263)

\* the first (date, snapshot) pair of each history
FirstPair(h) ==
  IF h = "real" THEN <<RealStart, AssetPrice(6669, 255)>>
                ELSE <<Today, AssetPrice(5896, 250)>>

\* C9: construction with cash < 0 fails (NotEnoughCash raised by
\* __post_init__) before anything is pulled from the history; with
\* cash >= 0, zero included, it succeeds, stands on the first pair of the
\* history and sets the initial value to cash + sum of holdings * day-0
\* price, so that the profit is 0.
C9_Construction ==
  [][ (pc = "new" /\ last'.op = "construct")
      => IF cash < 0
           THEN /\ last'.result = "NotEnoughCash"
                /\ pc' = "failed"
                /\ days' = iter_history
                /\ UNCHANGED <<cash, assets>>
           ELSE /\ last'.result = "ok"
                /\ pc' = "ready"
                /\ days'.n = 1
                /\ <<current_date', current_prices'>> = FirstPair(history)
                /\ cash' = cash
                /\ \A n \in Names : Quantity(assets', n) = Quantity(assets, n)
                /\ initial_value' = Worth(cash, assets, FirstPair(history)[2])
                /\ profit(cash', assets', current_prices', initial_value') = 0
    ]_vars

\* constructed with no cash and two SBER, worth 2 * 255 on the first day
C9_Witness ==
  /\ last.op = "construct" /\ last.result = "ok" /\ pc = "ready"
  /\ history = "real" /\ cash = 0
  /\ Quantity(assets, "SBER") = 2 /\ initial_value = 510

C13_Stationary ==
  (history = "chill" /\ pc = "ready") =>
     /\ ~days.done
     /\ last.result # "StopIteration"
     /\ current_prices = AssetPrice(5896, 250)
     /\ current_date = Today + (days.n - 1)
     /\ LET r == next_day(history, days, current_date, current_prices)
        IN /\ r.result = "ok"
           /\ r.prices = AssetPrice(5896, 250)
           /\ r.date = current_date + 1
           /\ value(cash, assets, r.prices)
                = value(cash, assets, current_prices)
     /\ (ntrades = 0 => value(cash, assets, current_prices) = initial_value)

\* two next_day calls on the stationary history with SBER held, no trade
C13_Witness ==
  /\ history = "chill" /\ pc = "ready" /\ days.n = 3 /\ ntrades = 0
  /\ last.op = "next_day" /\ last.result = "ok"
  /\ Quantity(assets, "SBER") = 2
  /\ current_date = Today + 2

\* the entry of asset_values for one field: none for a zero holding
Entry(name) ==
  IF Quantity(assets, name) # 0
    THEN << <<name, Quantity(assets, name),
              Quantity(assets, name) * current_prices[name]>> >>
    ELSE << >>

\* C14: asset_values has exactly one entry (a, holdings[a], holdings[a] *
\* current price(a)) for each priced asset with a non-zero holding, none
\* for a zero holding, LKOH before SBER, at the current snapshot.
C14_AssetValues ==
  pc = "ready" =>
    asset_values(assets, current_prices) = Entry("LKOH") \o Entry("SBER")

\* on a later day SBER was sold out while LKOH is still held
C14_Witness ==
  /\ pc = "ready" /\ days.n >= 2
  /\ last.op = "sell" /\ last.result = "ok" /\ last.asset = "SBER"
  /\ last.amount > 0
  /\ Quantity(assets, "SBER") = 0 /\ Quantity(assets, "LKOH") > 0
  /\ Len(asset_values(assets, current_prices)) = 1

\* the pair a history yields after n pairs
NextPair(h, n) ==
  IF h = "real" THEN RealHistory[n + 1]
                ELSE <<Today + n, AssetPrice(5896, 250)>>

\* C16: only next_day moves the day: a buy or sell, failed or not, keeps
\* the date and the snapshot and pulls nothing, and is priced at the
\* current snapshot; a successful next_day takes the next pair of the
\* history, with a later date, and keeps cash and holdings.
C16_DayCursor ==
  [][ /\ (BuyCall \/ SellCall)
           => /\ UNCHANGED <<current_date, current_prices, days>>
              /\ (last'.result = "ok" /\ last'.op = "buy")
                   => cash - cash' = current_prices[last'.asset] * last'.amount
              /\ (last'.result = "ok" /\ last'.op = "sell")
                   => cash' - cash = current_prices[last'.asset] * last'.amount
      /\ (pc = "ready" /\ last'.op = "next_day" /\ last'.result = "ok")
           => /\ days'.n = days.n + 1
              /\ <<current_date', current_prices'>> = NextPair(history, days.n)
              /\ current_date' > current_date
              /\ cash' = cash
              /\ assets' = assets
      /\ (pc = "ready" /\ <<current_date', current_prices', days'>>
                           # <<current_date, current_prices, days>>)
           => last'.op = "next_day" ]_vars

\* the third day of the replayed history, reached after two trades
C16_Witness ==
  /\ history = "real" /\ pc = "ready" /\ days.n = 3 /\ ntrades = 2
  /\ last.op = "next_day" /\ last.result = "ok"
  /\ current_date = RealStart + 2
  /\ current_prices = AssetPrice(6729, 262)

\* a buy of q of a followed at once by a sell of q of a, from (c, h)
BuyThenSell(a, q) ==
  LET b == buy(cash, assets, current_prices, a, q)
      s == sell(b.cash, b.assets, current_prices, a, q)
  IN b.result = "ok"
       => /\ s.result = "ok"
          /\ s.cash = cash
          /\ \A n \in Names : Quantity(s.assets, n) = Quantity(assets, n)

SellThenBuy(a, q) ==
  LET s == sell(cash, assets, current_prices, a, q)
      b == buy(s.cash, s.assets, current_prices, a, q)
  IN s.result = "ok"
       => /\ b.result = "ok"
          /\ b.cash = cash
          /\ \A n \in Names : Quantity(b.assets, n) = Quantity(assets, n)

\* C19: on one day a successful buy(a, q) followed at once by sell(a, q)
\* succeeds and restores cash and every holding, and so does a successful
\* sell(a, q) followed by buy(a, q).
C19_RoundTrip ==
  pc = "ready" =>
    \A a \in Names, q \in Amounts : BuyThenSell(a, q) /\ SellThenBuy(a, q)

\* C20: after construction a sell of a positive quantity of a priced asset
\* held in quantity 0 fails with NotEnoughAsset, never WrongAssetName, and
\* changes nothing.
C20_SellZeroHolding ==
  [][ (/\ SellCall
       /\ last'.asset \in FieldSet
       /\ last'.amount > 0
       /\ Quantity(assets, last'.asset) = 0)
      => (/\ last'.result = "NotEnoughAsset"
          /\ last'.asset \in Records(assets)
          /\ UNCHANGED <<cash, assets, current_date, current_prices,
                         initial_value, days>>) ]_vars

\* a sell of an asset that was never bought, first call after construction
C20_Witness ==
  /\ pc = "ready" /\ ntrades = 1
  /\ last.op = "sell" /\ last.result = "NotEnoughAsset"
  /\ last.asset \in FieldSet /\ last.amount > 0
  /\ Quantity(assets, last.asset) = 0
  /\ initial_value = cash

(* --------------------- properties of the histories ---------------------- *)
\* the pairs generator i has yielded
Yielded(i) == iters[i].out

\* generators i and j agree on every day both have yielded
SamePath(i, j) ==
  \A n \in 1..Len(Yielded(i)) :
     n <= Len(Yielded(j)) => Yielded(i)[n] = Yielded(j)[n]

\* C11: the randomized history yields the default snapshot on day 0 and,
\* on every later day n, for every asset the price of day n - 1 times the
\* multiplier sampled for day n (multipliers are in halves).
C11_Compounding ==
  \A i \in IterIds :
     /\ Len(Yielded(i)) >= 1 => Yielded(i)[1][2] = AssetPrice(5896, 250)
     /\ \A n \in 2..Len(Yielded(i)) : \A f \in FieldSet :
          2 * Yielded(i)[n][2][f]
            = Yielded(i)[n - 1][2][f] * iters[i].draws[n - 1][f]

\* C12: two randomized histories built with the same seed and range, each
\* iterated once, yield the same (date, snapshot) pairs day for day,
\* however the pulls of the two are interleaved.
C12_SameSeedSamePath ==
  iters["a2"].day = 0 => SamePath("a1", "b1")

\* both histories were iterated to the last day, one pull ahead or behind
\* at a time, and the path is not the constant one
C12_Witness ==
  /\ iters["a2"].day = 0
  /\ Len(Yielded("a1")) = MaxChaosDay + 1
  /\ Len(Yielded("b1")) = MaxChaosDay + 1
  /\ Yielded("a1")[2][2] # Yielded("a1")[3][2]
  /\ Yielded("b1")[3] = Yielded("a1")[3]

\* C17: a second generator opened on one randomized history yields the
\* same path as the first, whatever the first has drawn by then.
C17_ReiterationSamePath ==
  SamePath("a1", "a2")

(* ---------------------- properties of the session ----------------------- *)
\* C15: asset_values, value and profit (read by print_summary) leave cash,
\* every holding and the set of holding records as they were, and a buy or
\* sell has the same outcome whether or not they were read before it.
C15_AccessorsPure ==
  /\ [][ (run = "summary" /\ run' = "action")
           => /\ Records(assets') = Records(assets)
              /\ UNCHANGED <<cash, assets, current_date, current_prices,
                             initial_value, days>> ]_vars
  /\ [](pc = "ready" =>
         \A a \in Names, q \in Amounts :
            /\ buy(cash, Touched(assets), current_prices, a, q).result
                 = buy(cash, assets, current_prices, a, q).result
            /\ sell(cash, Touched(assets), current_prices, a, q).result
                 = sell(cash, assets, current_prices, a, q).result)

\* the summary was printed again after a refused sell of a priced asset
C15_Witness ==
  /\ run = "action" /\ ntrades = 1
  /\ last.op = "sell" /\ last.result = "NotEnoughAsset"
  /\ last.asset \in FieldSet
  /\ Records(assets) = FieldSet

\* C18: in the session loop a buy or sell that fails with WrongAssetName,
\* NotEnoughCash or NotEnoughAsset goes back to the menu with the state
\* unchanged; the loop is left only by the quit choice or by a next_day
\* that hits the end of the history; the result is then printed exactly
\* once and nothing more is processed.
C18_Session ==
  /\ [][ /\ (/\ run = "action" /\ (BuyCall \/ SellCall)
              /\ last'.result
                   \in {"WrongAssetName", "NotEnoughCash", "NotEnoughAsset"})
             => /\ run' = "summary"
                /\ UNCHANGED <<cash, assets, current_date, current_prices,
                               initial_value, days>>
         /\ (run = "action" /\ run' # "summary")
             => /\ run' = "result"
                /\ \/ last'.op = "quit"
                   \/ last'.op = "next_day" /\ last'.result = "StopIteration"
         /\ run = "result" => (run' = "done" /\ reported' = reported + 1)
         /\ run # "done" ]_vars
  /\ [](reported = IF run = "done" THEN 1 ELSE 0)

====
